---- MODULE Spec2Model ----
(***************************************************************************)
(* Model of the Binance Futures order scripts under                        *)
(* src/sanket_binance_bot/src: market_orders.py, limit_orders.py,          *)
(* advanced/stop_limit.py and advanced/oco.py.                             *)
(*                                                                         *)
(* A Python str is a sequence of one-character strings, so that upper(),   *)
(* lower(), strip(), len() and float() are computed character by           *)
(* character.  A Python float is a record [k, v]: k = "num" with the       *)
(* integer value v, k = "inf" with the sign v, k = "nan"; float() raising  *)
(* ValueError is k = "err".  The raw strings the model draws hold no       *)
(* fraction, exponent or underscore, so ParseFloat covers every input it   *)
(* is given.                                                               *)
(*                                                                         *)
(* A run is one process: main() from the argument count test to its exit.  *)
(* Every blocking call (file, prompt, client, exchange) is one step whose  *)
(* outcome is chosen by the environment: it returns, it raises, or the     *)
(* operator interrupts it (KeyboardInterrupt is delivered during blocking  *)
(* calls).  An order the exchange returns carries the fields the scripts   *)
(* read (orderId, price, stopPrice, status).  The exchange may fill an     *)
(* open order at any time, also after the process has exited.              *)
(*                                                                         *)
(* Spec is the run of the four scripts; SpecValidate applies the four      *)
(* validate_inputs functions to a wider set of raw arguments.              *)
(***************************************************************************)
EXTENDS Integers, Sequences, FiniteSets, TLC

(* ------------------------------ bounds -------------------------------- *)

\* numeric command-line arguments include the decimal renderings of 0..MaxPrice
MaxPrice == 2

\* the exchange assigns order identifiers from 1..MaxOrderId
MaxOrderId == 2

(* ------------------------------ strings ------------------------------- *)

Lowers == << "a","b","c","d","e","f","g","h","i","j","k","l","m",
             "n","o","p","q","r","s","t","u","v","w","x","y","z" >>

Uppers == << "A","B","C","D","E","F","G","H","I","J","K","L","M",
             "N","O","P","Q","R","S","T","U","V","W","X","Y","Z" >>

Digits == << "0","1","2","3","4","5","6","7","8","9" >>

Whitespace == { " ", "\t", "\n" }

IndexIn(c, alphabet) ==
    IF \E i \in 1..Len(alphabet) : alphabet[i] = c
    THEN CHOOSE i \in 1..Len(alphabet) : alphabet[i] = c
    ELSE 0

\* str.upper()
Upper(s) ==
    [ i \in 1..Len(s) |->
        IF IndexIn(s[i], Lowers) # 0 THEN Uppers[IndexIn(s[i], Lowers)] ELSE s[i] ]

\* str.lower()
Lower(s) ==
    [ i \in 1..Len(s) |->
        IF IndexIn(s[i], Uppers) # 0 THEN Lowers[IndexIn(s[i], Uppers)] ELSE s[i] ]

RECURSIVE LStrip(_)
LStrip(s) ==
    IF s # << >> /\ Head(s) \in Whitespace THEN LStrip(Tail(s)) ELSE s

RECURSIVE RStrip(_)
RStrip(s) ==
    IF s # << >> /\ s[Len(s)] \in Whitespace
    THEN RStrip(SubSeq(s, 1, Len(s) - 1))
    ELSE s

\* str.strip()
Strip(s) == RStrip(LStrip(s))

(* ------------------------------ floats -------------------------------- *)

FNum(n) == [ k |-> "num", v |-> n ]
FInf(sign) == [ k |-> "inf", v |-> sign ]
FNaN == [ k |-> "nan", v |-> 0 ]
FErr == [ k |-> "err", v |-> 0 ]

IsDigits(s) == s # << >> /\ \A i \in 1..Len(s) : IndexIn(s[i], Digits) # 0

RECURSIVE DigitsValue(_)
DigitsValue(s) ==
    IF s = << >> THEN 0
    ELSE 10 * DigitsValue(SubSeq(s, 1, Len(s) - 1)) + (IndexIn(s[Len(s)], Digits) - 1)

\* float(str): surrounding whitespace is dropped, one sign is allowed, then
\* decimal digits, "inf" / "infinity" or "nan" in any case; anything else raises
\* ValueError
ParseFloat(raw) ==
    LET s    == Strip(raw)
        neg  == s # << >> /\ Head(s) = "-"
        body == IF s # << >> /\ Head(s) \in { "+", "-" } THEN Tail(s) ELSE s
        sign == IF neg THEN -1 ELSE 1
    IN  IF IsDigits(body) THEN FNum(sign * DigitsValue(body))
        ELSE IF Lower(body) \in { << "i","n","f" >>,
                                  << "i","n","f","i","n","i","t","y" >> }
             THEN FInf(sign)
        ELSE IF Lower(body) = << "n","a","n" >> THEN FNaN
        ELSE FErr

\* a < b on floats: false as soon as one side is nan
FLt(a, b) ==
    /\ a.k # "nan"
    /\ b.k # "nan"
    /\ CASE a.k = "num" /\ b.k = "num" -> a.v < b.v
         [] a.k = "inf" /\ b.k = "inf" -> a.v < b.v
         [] a.k = "inf" -> a.v < 0
         [] OTHER -> b.v > 0

\* a <= b on floats
FLe(a, b) == a.k # "nan" /\ b.k # "nan" /\ (a = b \/ FLt(a, b))

\* a > b and a >= b on floats
FGt(a, b) == FLt(b, a)

FGe(a, b) == FLe(b, a)

FZero == FNum(0)

(* ---------------------------- validation ------------------------------ *)

\* a symbol shorter than this is rejected
MinSymbolLen == 6

BUY  == << "B","U","Y" >>

SELL == << "S","E","L","L" >>

\* "not symbol or len(symbol) < 6" with the test written <= 6
SymbolErrors_le(symbol) ==
    IF symbol = << >> \/ Len(symbol) <= MinSymbolLen
    THEN << "Symbol must be at least 6 characters (e.g., BTCUSDT)" >>
    ELSE << >>

\* "not symbol or len(symbol) < 6"
SymbolErrors(symbol) ==
    IF symbol = << >> \/ Len(symbol) < MinSymbolLen
    THEN << "Symbol must be at least 6 characters (e.g., BTCUSDT)" >>
    ELSE << >>

\* "side.upper() not in ['BUY', 'SELL']"
SideErrors(side) ==
    IF Upper(side) \notin { BUY, SELL }
    THEN << "Side must be either BUY or SELL" >>
    ELSE << >>

\* try: x = float(raw); if x <= 0: append(positive) / except ValueError: append(number)
NumberErrors(raw, positive, number) ==
    LET x == ParseFloat(raw)
    IN  IF x.k = "err" THEN << number >>
        ELSE IF FLe(x, FZero) THEN << positive >>
        ELSE << >>

QuantityErrors(quantity) ==
    NumberErrors(quantity, "Quantity must be greater than 0",
                           "Quantity must be a valid number")

PriceErrors(price) ==
    NumberErrors(price, "Price must be greater than 0",
                        "Price must be a valid number")

LimitPriceErrors(limit_price) ==
    NumberErrors(limit_price, "Limit price must be greater than 0",
                              "Limit price must be a valid number")

StopPriceErrors(stop_price) ==
    NumberErrors(stop_price, "Stop price must be greater than 0",
                             "Stop price must be a valid number")

StopLimitPriceErrors(stop_limit_price) ==
    NumberErrors(stop_limit_price, "Stop limit price must be greater than 0",
                                   "Stop limit price must be a valid number")

\* market_orders.py validate_inputs
validate_inputs_market(symbol, side, quantity) ==
    SymbolErrors(symbol) \o SideErrors(side) \o QuantityErrors(quantity)

\* limit_orders.py validate_inputs with a return at the first violation
validate_inputs_limit_first_only(symbol, side, quantity, price) ==
    LET all == SymbolErrors(symbol) \o SideErrors(side)
                 \o QuantityErrors(quantity) \o PriceErrors(price)
    IN  IF all = << >> THEN << >> ELSE << Head(all) >>

\* limit_orders.py validate_inputs
validate_inputs_limit(symbol, side, quantity, price) ==
    SymbolErrors(symbol) \o SideErrors(side)
        \o QuantityErrors(quantity) \o PriceErrors(price)

\* the "Validate stop-limit logic" block of stop_limit.py: both branches test
\* stop_prc < limit_prc; a ValueError of either float() skips the block
StopLimitLogicErrors(side, stop_price, limit_price) ==
    LET stop_prc  == ParseFloat(stop_price)
        limit_prc == ParseFloat(limit_price)
    IN  IF stop_prc.k = "err" \/ limit_prc.k = "err" THEN << >>
        ELSE IF Upper(side) = SELL
             THEN IF FLt(stop_prc, limit_prc)
                  THEN << "For SELL orders: stop price should be >= limit price (stop-loss scenario)" >>
                  ELSE << >>
             ELSE IF FLt(stop_prc, limit_prc)
                  THEN << "For BUY orders: stop price should be >= limit price (stop-buy scenario)" >>
                  ELSE << >>

\* advanced/stop_limit.py validate_inputs
validate_inputs_stop_limit(symbol, side, quantity, stop_price, limit_price) ==
    SymbolErrors(symbol) \o SideErrors(side) \o QuantityErrors(quantity)
        \o StopPriceErrors(stop_price) \o LimitPriceErrors(limit_price)
        \o StopLimitLogicErrors(side, stop_price, limit_price)

\* the "Validate OCO logic" block with the SELL limit test written < instead of <=
OcoLogicErrors_strict(side, limit_price, stop_price, stop_limit_price) ==
    LET limit_prc      == ParseFloat(limit_price)
        stop_prc       == ParseFloat(stop_price)
        stop_limit_prc == ParseFloat(stop_limit_price)
    IN  IF limit_prc.k = "err" \/ stop_prc.k = "err" \/ stop_limit_prc.k = "err"
        THEN << >>
        ELSE IF Upper(side) = SELL
             THEN (IF FLt(limit_prc, stop_prc)
                   THEN << "For SELL OCO: limit price should be > stop price (profit taking above current, stop loss below)" >>
                   ELSE << >>)
                  \o (IF FGt(stop_limit_prc, stop_prc)
                      THEN << "For SELL OCO: stop limit price should be <= stop price" >>
                      ELSE << >>)
             ELSE (IF FGe(limit_prc, stop_prc)
                   THEN << "For BUY OCO: limit price should be < stop price (buy below current, stop loss above)" >>
                   ELSE << >>)
                  \o (IF FLt(stop_limit_prc, stop_prc)
                      THEN << "For BUY OCO: stop limit price should be >= stop price" >>
                      ELSE << >>)

\* the "Validate OCO logic" block of oco.py: the SELL rules when the upper-cased
\* side is SELL, the BUY rules for every other side; a ValueError of any of the
\* three float() calls skips the block
OcoLogicErrors(side, limit_price, stop_price, stop_limit_price) ==
    LET limit_prc      == ParseFloat(limit_price)
        stop_prc       == ParseFloat(stop_price)
        stop_limit_prc == ParseFloat(stop_limit_price)
    IN  IF limit_prc.k = "err" \/ stop_prc.k = "err" \/ stop_limit_prc.k = "err"
        THEN << >>
        ELSE IF Upper(side) = SELL
             THEN (IF FLe(limit_prc, stop_prc)
                   THEN << "For SELL OCO: limit price should be > stop price (profit taking above current, stop loss below)" >>
                   ELSE << >>)
                  \o (IF FGt(stop_limit_prc, stop_prc)
                      THEN << "For SELL OCO: stop limit price should be <= stop price" >>
                      ELSE << >>)
             ELSE (IF FGe(limit_prc, stop_prc)
                   THEN << "For BUY OCO: limit price should be < stop price (buy below current, stop loss above)" >>
                   ELSE << >>)
                  \o (IF FLt(stop_limit_prc, stop_prc)
                      THEN << "For BUY OCO: stop limit price should be >= stop price" >>
                      ELSE << >>)

\* advanced/oco.py validate_inputs
validate_inputs_oco(symbol, side, quantity, limit_price, stop_price, stop_limit_price) ==
    SymbolErrors(symbol) \o SideErrors(side) \o QuantityErrors(quantity)
        \o LimitPriceErrors(limit_price) \o StopPriceErrors(stop_price)
        \o StopLimitPriceErrors(stop_limit_price)
        \o OcoLogicErrors(side, limit_price, stop_price, stop_limit_price)

(* ------------------------------- state -------------------------------- *)

VARIABLES
    cmd,                \* which script runs: "market", "limit", "stop_limit", "oco"
    argv,               \* sys.argv[1:], raw strings
    pc,                 \* position of the run in main()
    exitCode,           \* process exit code, -1 while the process runs
    validation_errors,  \* the list validate_inputs returned
    env,                \* API_KEY / API_SECRET of the .env file, << >> when absent
    env0,               \* the .env file as it was when the process started
    api_key,            \* get_api_credentials' result
    api_secret,
    calls,              \* every file, client and exchange call issued so far, in order
    orders,             \* the order(s) placed: place_oco_order's list `orders`
    ci,                 \* place_oco_order's cancellation loop: index of the next order
    exc,                \* the exception being handled, then the one main() caught
    confirm,            \* the raw answer typed at the OCO confirmation prompt
    log,                \* notable messages logged or printed
    book                \* the exchange's side: status of each order identifier

vars == << cmd, argv, pc, exitCode, validation_errors, env, env0, api_key, api_secret,
           calls, orders, ci, exc, confirm, log, book >>

Commands == { "market", "limit", "stop_limit", "oco" }

\* a value that is no command-line string: the argument is not passed
Absent == << "<absent>" >>

NoExc == [ kind |-> "none", op |-> "none", leg |-> 0 ]

\* len(sys.argv) - 1 that each main() requires
Argc(c) ==
    CASE c = "market" -> 3
      [] c = "limit" -> 4
      [] c = "stop_limit" -> 5
      [] OTHER -> 6

\* the validate_inputs call of each main()
ValidateInputs(c, a) ==
    CASE c = "market" -> validate_inputs_market(a[1], a[2], a[3])
      [] c = "limit" -> validate_inputs_limit(a[1], a[2], a[3], a[4])
      [] c = "stop_limit" -> validate_inputs_stop_limit(a[1], a[2], a[3], a[4], a[5])
      [] OTHER -> validate_inputs_oco(a[1], a[2], a[3], a[4], a[5], a[6])

(* ---------------------------- call records ---------------------------- *)

Call(op, type, symbol, side, quantity, price, stopPrice, orderId, res) ==
    [ op |-> op, type |-> type, symbol |-> symbol, side |-> side,
      quantity |-> quantity, price |-> price, stopPrice |-> stopPrice,
      orderId |-> orderId, res |-> res ]

\* a call that carries no order parameters
Plain(op, symbol, res) == Call(op, "", symbol, Absent, Absent, Absent, Absent, 0, res)

\* outcomes of a blocking call wrapped in "except Exception": it returns, raises
\* some Exception, or the operator interrupts it (KeyboardInterrupt)
HelperOutcomes == { "ok", "error", "interrupt" }

\* outcomes of futures_create_order: it returns an order, raises
\* BinanceAPIException, BinanceOrderException or another Exception (transport
\* failure), or the operator interrupts it
PlaceOutcomes == { "ok", "api", "order", "other", "interrupt" }

ErrorKinds == { "api", "order", "other", "error" }

IsPlacement(c) == c.op = "futures_create_order"

IsCancel(c) == c.op = "futures_cancel_order"

ExchangeOps == { "futures_account", "futures_account_balance", "futures_symbol_ticker",
                 "futures_get_open_orders", "futures_create_order", "futures_cancel_order" }

Indices(seq) == 1..Len(seq)

PlacementIdx == { i \in Indices(calls) : IsPlacement(calls[i]) }

CancelIdx == { i \in Indices(calls) : IsCancel(calls[i]) }

FreshIds == { id \in 1..MaxOrderId : book[id] = "none" }

(* ------------------------------- inputs ------------------------------- *)

RECURSIVE Str(_)
\* the decimal rendering of a natural number
Str(n) == IF n < 10 THEN << Digits[n + 1] >> ELSE Str(n \div 10) \o << Digits[(n % 10) + 1] >>

BTCUSDT == << "B","T","C","U","S","D","T" >>

NotANumber == << "a","b","c" >>

RunSymbols == { BTCUSDT, << "B","T","C" >> }

RunSides == { SELL, << "b","u","y" >>, << "H","O","L","D" >> }

RunQuantities == { Str(1), Str(0), NotANumber }

RunPrices == { Str(n) : n \in 0..MaxPrice } \cup { NotANumber }

\* argument lists of the right length for each script
GoodArgv(c) ==
    CASE c = "market" ->
           { << y, s, q >> : y \in RunSymbols, s \in RunSides, q \in RunQuantities }
      [] c = "limit" ->
           { << y, s, q, p >> : y \in RunSymbols, s \in RunSides, q \in RunQuantities,
                                p \in RunPrices }
      [] c = "stop_limit" ->
           { << y, s, q, p1, p2 >> : y \in RunSymbols, s \in RunSides, q \in RunQuantities,
                                     p1 \in RunPrices, p2 \in RunPrices }
      [] OTHER ->
           { << y, s, q, p1, p2, p3 >> : y \in RunSymbols, s \in RunSides,
                                         q \in RunQuantities, p1 \in RunPrices,
                                         p2 \in RunPrices, p3 \in RunPrices }

\* argument lists of a wrong length: none, one too few, one too many
BadArgv(c) ==
    { << >>,
      [ i \in 1..(Argc(c) - 1) |-> Str(1) ],
      [ i \in 1..(Argc(c) + 1) |-> Str(1) ] }

\* the .env file before the run: both entries, none, or the key alone
EnvFiles ==
    { [ key |-> << "K" >>, secret |-> << "S" >> ],
      [ key |-> << >>,     secret |-> << >> ],
      [ key |-> << "K" >>, secret |-> << >> ] }

\* what the operator types at a credential prompt
Typed == { << >>, << " " >>, << " ", "k" >> }

\* what the operator types at the OCO confirmation prompt
Answers == { << "y" >>, << " ", "Y", " " >>, << "n" >>, << >>,
             << "y","e","s" >>, << "N" >> }

NoBook == [ id \in 1..MaxOrderId |-> "none" ]

Init ==
    /\ cmd \in Commands
    /\ argv \in GoodArgv(cmd) \cup BadArgv(cmd)
    /\ pc = "args"
    /\ exitCode = -1
    /\ validation_errors = << >>
    /\ env \in EnvFiles
    /\ env0 = env
    /\ api_key = Absent
    /\ api_secret = Absent
    /\ calls = << >>
    /\ orders = << >>
    /\ ci = 1
    /\ exc = NoExc
    /\ confirm = Absent
    /\ log = { }
    /\ book = NoBook

(* ------------------------------- main() ------------------------------- *)

\* "if validation_errors:" with the test never taken
ValidationRejects_never(errors) == FALSE

\* "if validation_errors:" of each main()
ValidationRejects(errors) == errors # << >>

\* main()'s handlers with "except Exception" ending like "except KeyboardInterrupt"
MainExitCode_swallow(kind) == IF kind \in { "interrupt", "other" } THEN 0 ELSE 1

\* main()'s handlers: "except KeyboardInterrupt" logs and falls off the end of
\* main (exit code 0), "except Exception" logs and calls sys.exit(1)
MainExitCode(kind) == IF kind = "interrupt" THEN 0 ELSE 1

Exception(kind, op, leg) == [ kind |-> kind, op |-> op, leg |-> leg ]

\* exception e reaches main()'s handlers; lg is the log so far
Propagate(e, lg) ==
    /\ exc' = e
    /\ pc' = "done"
    /\ exitCode' = MainExitCode(e.kind)
    /\ log' = lg \cup { IF e.kind = "interrupt" THEN "Operation cancelled by user"
                                                ELSE "order failed" }

\* sys.exit(code) outside a handler
Exit(code) ==
    /\ pc' = "done"
    /\ exitCode' = code

\* "if len(sys.argv) != n: print usage; sys.exit(1)"
CheckArgs ==
    /\ pc = "args"
    /\ IF Len(argv) # Argc(cmd) THEN Exit(1) ELSE pc' = "validate" /\ UNCHANGED exitCode
    /\ UNCHANGED << cmd, argv, env0, validation_errors, env, api_key, api_secret, calls,
                    orders, ci, exc, confirm, log, book >>

\* "validation_errors = validate_inputs(...); if validation_errors: ... sys.exit(1)"
Validate ==
    /\ pc = "validate"
    /\ validation_errors' = ValidateInputs(cmd, argv)
    /\ IF ValidationRejects(validation_errors')
       THEN Exit(1) /\ log' = log \cup { "Input validation failed:" }
       ELSE pc' = "creds" /\ UNCHANGED << exitCode, log >>
    /\ UNCHANGED << cmd, argv, env0, env, api_key, api_secret, calls, orders, ci, exc,
                    confirm, book >>

\* "if not api_key or not api_secret" of main() testing the key alone
CredentialsMissing_key_only(key, secret) == key = << >>

\* "if not api_key or not api_secret" of main()
CredentialsMissing(key, secret) == key = << >> \/ secret = << >>

\* "if not api_key or not api_secret" of get_api_credentials() never true: the
\* prompts and the write happen in every run
EnvComplete_never(e) == FALSE

\* "if not api_key or not api_secret" of get_api_credentials(), negated: both
\* entries were found by load_dotenv / os.getenv
EnvComplete(e) == e.key # << >> /\ e.secret # << >>

\* get_api_credentials() and main()'s test of its result: the .env file is read; when
\* an entry is missing both values are prompted for, stripped and written back (a
\* failure to write is logged only); empty credentials end the run with code 1
GetApiCredentials ==
    /\ pc = "creds"
    /\ LET loaded == Append(calls, Plain("load_dotenv", Absent, "ok"))
       IN  IF EnvComplete(env)
           THEN /\ api_key' = env.key
                /\ api_secret' = env.secret
                /\ calls' = loaded
                /\ pc' = "client"
                /\ UNCHANGED << env, exitCode, exc, log >>
           ELSE \/ \E tk \in Typed, ts \in Typed, written \in BOOLEAN :
                     /\ api_key' = Strip(tk)
                     /\ api_secret' = Strip(ts)
                     /\ calls' = Append(loaded, Plain("write_env", Absent,
                                                      IF written THEN "ok" ELSE "error"))
                     /\ env' = IF written
                               THEN [ key |-> Strip(tk), secret |-> Strip(ts) ]
                               ELSE env
                     /\ IF CredentialsMissing(api_key', api_secret')
                        THEN Exit(1) /\ log' = log \cup { "API credentials are required" }
                        ELSE pc' = "client" /\ UNCHANGED << exitCode, log >>
                     /\ UNCHANGED exc
                \/ \E kind \in { "error", "interrupt" } :
                     /\ calls' = loaded
                     /\ Propagate(Exception(kind, "input", 0), log)
                     /\ UNCHANGED << env, api_key, api_secret >>
    /\ UNCHANGED << cmd, argv, env0, validation_errors, orders, ci, confirm, book >>

\* create_binance_client(): an exception of Client(...) is logged and re-raised
CreateBinanceClient ==
    /\ pc = "client"
    /\ \E res \in HelperOutcomes :
         /\ calls' = Append(calls, Plain("Client", Absent, res))
         /\ IF res = "ok"
            THEN pc' = "account" /\ UNCHANGED << exitCode, exc, log >>
            ELSE Propagate(Exception(res, "Client", 0), log)
    /\ UNCHANGED << cmd, argv, env0, validation_errors, env, api_key, api_secret, orders,
                    ci, confirm, book >>

\* where main() goes after get_account_info()
AfterAccount(c) ==
    CASE c = "market" -> "place"
      [] c = "limit" -> "open_before"
      [] OTHER -> "price"

\* get_account_info(): futures_account() then futures_account_balance() in one
\* try; any Exception is logged and (None, None) returned
GetAccountInfo ==
    /\ pc = "account"
    /\ \E r1 \in HelperOutcomes, r2 \in HelperOutcomes :
         LET first  == Append(calls, Plain("futures_account", Absent, r1))
             second == Append(first, Plain("futures_account_balance", Absent, r2))
         IN  IF r1 = "ok"
             THEN /\ calls' = second
                  /\ IF r2 = "interrupt"
                     THEN Propagate(Exception(r2, "futures_account_balance", 0), log)
                     ELSE pc' = AfterAccount(cmd) /\ UNCHANGED << exitCode, exc, log >>
             ELSE /\ r2 = "ok"
                  /\ calls' = first
                  /\ IF r1 = "interrupt"
                     THEN Propagate(Exception(r1, "futures_account", 0), log)
                     ELSE pc' = AfterAccount(cmd) /\ UNCHANGED << exitCode, exc, log >>
    /\ UNCHANGED << cmd, argv, env0, validation_errors, env, api_key, api_secret, orders,
                    ci, confirm, book >>

\* the same call with "raise" in its handler: the Exception reaches main()
Swallowed_raise(op, next, msgs) ==
    \E res \in HelperOutcomes :
        /\ calls' = Append(calls, Plain(op, Upper(argv[1]), res))
        /\ IF res = "ok"
           THEN pc' = next /\ log' = log \cup msgs /\ UNCHANGED << exitCode, exc >>
           ELSE Propagate(Exception(res, op, 0), log)

\* a call wrapped in try / except Exception (get_current_price, get_open_orders):
\* an Exception is logged and swallowed, KeyboardInterrupt reaches main()
Swallowed(op, next, msgs) ==
    \E res \in HelperOutcomes :
        /\ calls' = Append(calls, Plain(op, Upper(argv[1]), res))
        /\ IF res = "interrupt"
           THEN Propagate(Exception(res, op, 0), log)
           ELSE pc' = next /\ log' = log \cup msgs /\ UNCHANGED << exitCode, exc >>

\* main(): "current_price = get_current_price(client, symbol)" followed by
\* explain_stop_limit_order / explain_oco_order
GetCurrentPrice ==
    /\ pc = "price"
    /\ Swallowed("futures_symbol_ticker", "open_before",
                 IF cmd = "oco"
                 THEN { "You must manually cancel the remaining order when one fills." }
                 ELSE { })
    /\ UNCHANGED << cmd, argv, env0, validation_errors, env, api_key, api_secret, orders,
                    ci, confirm, book >>

\* main(): "get_open_orders(client, symbol)" before the placement
GetOpenOrdersBefore ==
    /\ pc = "open_before"
    /\ Swallowed("futures_get_open_orders",
                 IF cmd = "oco" THEN "confirm" ELSE "place_price", { })
    /\ UNCHANGED << cmd, argv, env0, validation_errors, env, api_key, api_secret, orders,
                    ci, confirm, book >>

\* "confirm != 'y'" negated, with a test of the first letter only
Proceeds_prefix(answer) ==
    LET a == Lower(Strip(answer)) IN a # << >> /\ Head(a) = "y"

\* "confirm = input(...).strip().lower()" and the test "confirm != 'y'", negated
Proceeds(answer) == Lower(Strip(answer)) = << "y" >>

\* main() of oco.py: the confirmation prompt; any answer but y ends the run
\* with sys.exit(0); EOFError or KeyboardInterrupt of input() reach the handlers
Confirm ==
    /\ pc = "confirm"
    /\ \/ \E answer \in Answers :
            /\ confirm' = answer
            /\ IF Proceeds(answer)
               THEN /\ pc' = "place_price"
                    /\ log' = log \cup { "This will place TWO separate orders to simulate OCO functionality." }
                    /\ UNCHANGED exitCode
               ELSE /\ Exit(0)
                    /\ log' = log \cup { "This will place TWO separate orders to simulate OCO functionality.",
                                         "Operation cancelled by user" }
            /\ UNCHANGED exc
       \/ \E kind \in { "error", "interrupt" } :
            /\ Propagate(Exception(kind, "input", 0),
                         log \cup { "This will place TWO separate orders to simulate OCO functionality." })
            /\ UNCHANGED confirm
    /\ UNCHANGED << cmd, argv, env0, validation_errors, env, api_key, api_secret, calls,
                    orders, ci, book >>

(* ----------------------------- placement ------------------------------ *)

\* get_current_price() at the head of place_limit_order, place_stop_limit_order
\* and place_oco_order; place_oco_order then logs that the two orders need
\* manual management
PlacePrice ==
    /\ pc = "place_price"
    /\ Swallowed("futures_symbol_ticker",
                 IF cmd = "oco" THEN "leg1" ELSE "place",
                 IF cmd = "oco"
                 THEN { "This will place two separate orders that need manual management." }
                 ELSE { })
    /\ UNCHANGED << cmd, argv, env0, validation_errors, env, api_key, api_secret, orders,
                    ci, confirm, book >>

\* client.futures_create_order(symbol=symbol.upper(), side=side, ...): the side
\* passed as typed
OrderCall_raw_side(type, price, stopPrice, id, res) ==
    Call("futures_create_order", type, Upper(argv[1]), argv[2], argv[3],
         price, stopPrice, id, res)

\* client.futures_create_order(symbol=symbol.upper(), side=side.upper(), ...)
OrderCall(type, price, stopPrice, id, res) ==
    Call("futures_create_order", type, Upper(argv[1]), Upper(argv[2]), argv[3],
         price, stopPrice, id, res)

\* the order type and prices each script sends
OrderType(c) ==
    CASE c = "market" -> "MARKET"
      [] c = "limit" -> "LIMIT"
      [] OTHER -> "STOP"

OrderPrice(c) ==
    CASE c = "market" -> Absent
      [] c = "limit" -> argv[4]
      [] OTHER -> argv[5]

OrderStopPrice(c) == IF c = "stop_limit" THEN argv[4] ELSE Absent

\* the exchange answers a placement with a fresh identifier, or the call fails
Answer(res, id) == (res = "ok" /\ id \in FreshIds) \/ (res # "ok" /\ id = 0)

\* place_market_order / place_limit_order / place_stop_limit_order and the rest of
\* main(): every Exception is logged and re-raised, main() exits 1
PlaceOrder ==
    /\ pc = "place"
    /\ \E res \in PlaceOutcomes, id \in 0..MaxOrderId :
         /\ Answer(res, id)
         /\ calls' = Append(calls, OrderCall(OrderType(cmd), OrderPrice(cmd),
                                             OrderStopPrice(cmd), id, res))
         /\ IF res = "ok"
            THEN /\ book' = [ book EXCEPT ![id] = "NEW" ]
                 /\ orders' = << [ orderId |-> id, type |-> OrderType(cmd) ] >>
                 /\ IF cmd = "market" THEN Exit(0) ELSE pc' = "open_after" /\ UNCHANGED exitCode
                 /\ log' = log \cup { "order placed successfully!" }
                 /\ UNCHANGED exc
            ELSE /\ Propagate(Exception(res, "futures_create_order", 1), log)
                 /\ UNCHANGED << book, orders >>
    /\ UNCHANGED << cmd, argv, env0, validation_errors, env, api_key, api_secret, ci, confirm >>

LegType(leg) == IF leg = 1 THEN "LIMIT" ELSE "STOP"

\* leg 1: price=limit_price; leg 2: price=stop_limit_price, stopPrice=stop_price
LegCall(leg, id, res) ==
    IF leg = 1
    THEN OrderCall("LIMIT", argv[4], Absent, id, res)
    ELSE OrderCall("STOP", argv[6], argv[5], id, res)

\* "orders.append(...)" with the new order put at the front of the list
LegPlaced_front(leg, id) ==
    /\ book' = [ book EXCEPT ![id] = "NEW" ]
    /\ orders' = << [ orderId |-> id, type |-> LegType(leg) ] >> \o orders
    /\ IF leg = 1
       THEN pc' = "leg2" /\ UNCHANGED log
       ELSE /\ pc' = "open_after"
            /\ log' = log \cup { "Remember to manually cancel the other order when one fills!",
                                 "Remember to cancel the other order when one fills!" }
    /\ UNCHANGED << exitCode, exc, ci >>

\* a leg of place_oco_order was placed: "orders.append(...)"; after the second
\* leg the function logs the reminder and returns `orders`, and main() prints
\* both identifiers and the reminder
LegPlaced(leg, id) ==
    /\ book' = [ book EXCEPT ![id] = "NEW" ]
    /\ orders' = Append(orders, [ orderId |-> id, type |-> LegType(leg) ])
    /\ IF leg = 1
       THEN pc' = "leg2" /\ UNCHANGED log
       ELSE /\ pc' = "open_after"
            /\ log' = log \cup { "Remember to manually cancel the other order when one fills!",
                                 "Remember to cancel the other order when one fills!" }
    /\ UNCHANGED << exitCode, exc, ci >>

\* place_oco_order's handlers: only "except BinanceAPIException" looks at `orders`
\* and cancels, and only "if orders:"
HandlerCancels(kind, placed) == kind = "api" /\ placed # << >>

\* a leg of place_oco_order raised and is tried once more
LegFailed_retry(leg, res) ==
    /\ IF \A i \in PlacementIdx : calls[i].res = "ok"
       THEN pc' = pc /\ UNCHANGED << exitCode, exc, log >>
       ELSE Propagate(Exception(res, "futures_create_order", leg), log)
    /\ UNCHANGED << ci, book, orders >>

\* a leg of place_oco_order raised: BinanceAPIException with an order already
\* placed enters the cancellation loop, everything else is re-raised at once
LegFailed(leg, res) ==
    /\ IF HandlerCancels(res, orders)
       THEN /\ pc' = "cancel"
            /\ ci' = 1
            /\ exc' = Exception(res, "futures_create_order", leg)
            /\ log' = log \cup { "Attempting to cancel partially placed orders..." }
            /\ UNCHANGED exitCode
       ELSE /\ Propagate(Exception(res, "futures_create_order", leg), log)
            /\ UNCHANGED ci
    /\ UNCHANGED << book, orders >>

OcoLeg(leg) ==
    /\ \E res \in PlaceOutcomes, id \in 0..MaxOrderId :
         /\ Answer(res, id)
         /\ calls' = Append(calls, LegCall(leg, id, res))
         /\ IF res = "ok" THEN LegPlaced(leg, id) ELSE LegFailed(leg, res)
    /\ UNCHANGED << cmd, argv, env0, validation_errors, env, api_key, api_secret, confirm >>

\* the limit leg with its exception swallowed: the stop-limit leg follows anyway
PlaceLimitLeg_swallow ==
    /\ pc = "leg1"
    /\ \E res \in PlaceOutcomes, id \in 0..MaxOrderId :
         /\ Answer(res, id)
         /\ calls' = Append(calls, LegCall(1, id, res))
         /\ IF res = "ok"
            THEN LegPlaced(1, id)
            ELSE pc' = "leg2" /\ UNCHANGED << book, orders, exitCode, exc, ci, log >>
    /\ UNCHANGED << cmd, argv, env0, validation_errors, env, api_key, api_secret, confirm >>

\* place_oco_order: "limit_order = client.futures_create_order(... LIMIT ...)"
PlaceLimitLeg == pc = "leg1" /\ OcoLeg(1)

\* place_oco_order: "stop_order = client.futures_create_order(... 'STOP' ...)"
PlaceStopLeg == pc = "leg2" /\ OcoLeg(2)

CancelCall(id, res) ==
    Call("futures_cancel_order", "", Upper(argv[1]), Absent, Absent, Absent, Absent, id, res)

\* the cancellation loop without its inner try / except: a failed cancellation
\* leaves the handler as the exception that reaches main()
CancelPartial_unguarded ==
    /\ pc = "cancel"
    /\ ci \in Indices(orders)
    /\ \E res \in HelperOutcomes :
         LET id == orders[ci].orderId
         IN  /\ res = "ok" => book[id] = "NEW"
             /\ calls' = Append(calls, CancelCall(id, res))
             /\ book' = IF res = "ok" THEN [ book EXCEPT ![id] = "CANCELED" ] ELSE book
             /\ IF res # "ok"
                THEN Propagate(Exception(res, "futures_cancel_order", 0), log) /\ UNCHANGED ci
                ELSE IF ci = Len(orders)
                     THEN Propagate(exc, log \cup { "Cancelled order" }) /\ UNCHANGED ci
                     ELSE /\ ci' = ci + 1
                          /\ log' = log \cup { "Cancelled order" }
                          /\ UNCHANGED << pc, exitCode, exc >>
    /\ UNCHANGED << cmd, argv, env0, validation_errors, env, api_key, api_secret, orders,
                    confirm >>

\* place_oco_order's "for order in orders: try: client.futures_cancel_order(...)
\* except: logger.error(...)" and the "raise" after the loop: the bare except
\* swallows every failure of a cancellation, KeyboardInterrupt included, and the
\* placement error is re-raised
CancelPartial ==
    /\ pc = "cancel"
    /\ ci \in Indices(orders)
    /\ \E res \in HelperOutcomes :
         LET id  == orders[ci].orderId
             msg == IF res = "ok" THEN "Cancelled order" ELSE "Failed to cancel order"
         IN  /\ res = "ok" => book[id] = "NEW"
             /\ calls' = Append(calls, CancelCall(id, res))
             /\ book' = IF res = "ok" THEN [ book EXCEPT ![id] = "CANCELED" ] ELSE book
             /\ IF ci = Len(orders)
                THEN Propagate(exc, log \cup { msg }) /\ UNCHANGED ci
                ELSE /\ ci' = ci + 1
                     /\ log' = log \cup { msg }
                     /\ UNCHANGED << pc, exitCode, exc >>
    /\ UNCHANGED << cmd, argv, env0, validation_errors, env, api_key, api_secret, orders,
                    confirm >>

\* get_open_orders() after the placement with "raise" in its handler
GetOpenOrdersAfter_raise ==
    /\ pc = "open_after"
    /\ \E res \in HelperOutcomes :
         /\ calls' = Append(calls, Plain("futures_get_open_orders", Upper(argv[1]), res))
         /\ IF res = "ok"
            THEN Exit(0) /\ UNCHANGED << exc, log >>
            ELSE Propagate(Exception(res, "futures_get_open_orders", 0), log)
    /\ UNCHANGED << cmd, argv, env0, validation_errors, env, api_key, api_secret, orders,
                    ci, confirm, book >>

\* main(): "get_open_orders(client, symbol)" after the placement, then the end of
\* main()
GetOpenOrdersAfter ==
    /\ pc = "open_after"
    /\ \E res \in HelperOutcomes :
         /\ calls' = Append(calls, Plain("futures_get_open_orders", Upper(argv[1]), res))
         /\ IF res = "interrupt"
            THEN Propagate(Exception(res, "futures_get_open_orders", 0), log)
            ELSE Exit(0) /\ UNCHANGED << exc, log >>
    /\ UNCHANGED << cmd, argv, env0, validation_errors, env, api_key, api_secret, orders,
                    ci, confirm, book >>

(* ------------------------------ exchange ------------------------------ *)

\* the exchange fills an open order; the scripts neither watch nor react
Fill ==
    /\ \E id \in 1..MaxOrderId :
         /\ book[id] = "NEW"
         /\ book' = [ book EXCEPT ![id] = "FILLED" ]
    /\ UNCHANGED << cmd, argv, env0, pc, exitCode, validation_errors, env, api_key,
                    api_secret, calls, orders, ci, exc, confirm, log >>

Next ==
    \/ CheckArgs
    \/ Validate
    \/ GetApiCredentials
    \/ CreateBinanceClient
    \/ GetAccountInfo
    \/ GetCurrentPrice
    \/ GetOpenOrdersBefore
    \/ Confirm
    \/ PlacePrice
    \/ PlaceOrder
    \/ PlaceLimitLeg
    \/ PlaceStopLeg
    \/ CancelPartial
    \/ GetOpenOrdersAfter
    \/ Fill

Spec == Init /\ [][Next]_vars

(* ------------------- the validators as pure functions ------------------ *)

NaN == << "n","a","n" >>

Inf == << "i","n","f" >>

VSymbols == { << >>, << "B","T","C","U","S" >>, << "E","T","H","U","S","D" >>, BTCUSDT }

VSides == { SELL, BUY, << "S","e","l","l" >>, << "b","u","y" >>, << "H","O","L","D" >> }

VQuantities == { Str(1), Str(0), << "-","1" >>, NotANumber }

VPrices ==
    { Str(n) : n \in 0..MaxPrice }
        \cup { NotANumber, NaN, Inf }
        \cup { Str(28000), Str(28500), Str(29000), Str(30000) }

VArgv(c) ==
    CASE c = "market" ->
           { << y, s, q >> : y \in VSymbols, s \in VSides, q \in VQuantities }
      [] c = "limit" ->
           { << y, s, q, p >> : y \in VSymbols, s \in VSides, q \in VQuantities,
                                p \in VPrices \cup { << "-","1" >> } }
      [] c = "stop_limit" ->
           { << y, s, q, p1, p2 >> : y \in VSymbols, s \in VSides, q \in VQuantities,
                                     p1 \in VPrices, p2 \in VPrices }
      [] OTHER ->
           { << y, s, q, p1, p2, p3 >> : y \in VSymbols, s \in VSides, q \in VQuantities,
                                         p1 \in VPrices, p2 \in VPrices, p3 \in VPrices }

InitValidate ==
    /\ cmd \in Commands
    /\ argv \in VArgv(cmd)
    /\ pc = "call_validate"
    /\ exitCode = -1
    /\ validation_errors = << >>
    /\ env = [ key |-> << "K" >>, secret |-> << "S" >> ]
    /\ env0 = env
    /\ api_key = Absent
    /\ api_secret = Absent
    /\ calls = << >>
    /\ orders = << >>
    /\ ci = 1
    /\ exc = NoExc
    /\ confirm = Absent
    /\ log = { }
    /\ book = NoBook

Returned(errors) ==
    /\ validation_errors' = errors
    /\ pc' = "returned"
    /\ UNCHANGED << cmd, argv, env0, exitCode, env, api_key, api_secret, calls, orders, ci,
                    exc, confirm, log, book >>

CallValidateMarket ==
    /\ pc = "call_validate"
    /\ cmd = "market"
    /\ Returned(validate_inputs_market(argv[1], argv[2], argv[3]))

CallValidateLimit ==
    /\ pc = "call_validate"
    /\ cmd = "limit"
    /\ Returned(validate_inputs_limit(argv[1], argv[2], argv[3], argv[4]))

CallValidateStopLimit ==
    /\ pc = "call_validate"
    /\ cmd = "stop_limit"
    /\ Returned(validate_inputs_stop_limit(argv[1], argv[2], argv[3], argv[4], argv[5]))

CallValidateOco ==
    /\ pc = "call_validate"
    /\ cmd = "oco"
    /\ Returned(validate_inputs_oco(argv[1], argv[2], argv[3], argv[4], argv[5], argv[6]))

NextValidate ==
    \/ CallValidateMarket
    \/ CallValidateLimit
    \/ CallValidateStopLimit
    \/ CallValidateOco

SpecValidate == InitValidate /\ [][NextValidate]_vars

(* ------------------------------- claims ------------------------------- *)

Finished == pc = "done"

LimitLegOk(i) == IsPlacement(calls[i]) /\ calls[i].type = "LIMIT" /\ calls[i].res = "ok"

StopLegOk(i) == IsPlacement(calls[i]) /\ calls[i].type = "STOP" /\ calls[i].res = "ok"

StopLegFailed(i) ==
    IsPlacement(calls[i]) /\ calls[i].type = "STOP" /\ calls[i].res \in ErrorKinds

BothLegsPlaced ==
    /\ cmd = "oco"
    /\ \E i \in Indices(calls), j \in Indices(calls) : i < j /\ LimitLegOk(i) /\ StopLegOk(j)

\* C1: in a finished OCO run whose stop-limit leg failed (with any kind of error)
\* after the limit leg was placed, exactly one cancellation call was issued, it
\* carries the limit leg's order identifier, and the stop-limit leg's error is
\* the one that reached the caller, which exits with code 1.
C1_CancelOnEverySecondLegFailure ==
    (cmd = "oco" /\ Finished) =>
        \A i \in Indices(calls), j \in Indices(calls) :
            (LimitLegOk(i) /\ StopLegFailed(j)) =>
                /\ Cardinality(CancelIdx) = 1
                /\ \A c \in CancelIdx : calls[c].orderId = calls[i].orderId
                /\ exc = Exception(calls[j].res, "futures_create_order", 2)
                /\ exitCode = 1

\* C2: when a cancellation call of the OCO command failed, it is the only
\* cancellation call of the run, and the exception that reaches the caller is
\* the placement error of the stop-limit leg, not the cancellation's; the run
\* ends with exit code 1.
C2_FailedCancelNeitherRetriedNorMasking ==
    \A c \in CancelIdx :
        calls[c].res # "ok" =>
            /\ Cardinality(CancelIdx) = 1
            /\ Finished
            /\ exc = Exception("api", "futures_create_order", 2)
            /\ exitCode = 1

C2_Witness ==
    /\ Finished
    /\ \E c \in CancelIdx : calls[c].res = "error"

\* C3: once validate_inputs has returned a non-empty list, the run is over with
\* exit code 1 and has loaded no credentials, created no client and issued no
\* exchange call, in every command.
C3_ValidationFailureTouchesNothing ==
    validation_errors # << >> =>
        /\ Finished
        /\ exitCode = 1
        /\ calls = << >>
        /\ api_key = Absent
        /\ api_secret = Absent

C3_Witness ==
    /\ cmd = "oco"
    /\ Finished
    /\ Len(validation_errors) > 1
    /\ env.key = << >>

\* C4: in the OCO command every STOP placement call comes after a LIMIT
\* placement call that returned successfully, and after a failed LIMIT call no
\* STOP call is ever issued.
C4_StopLegOnlyAfterLimitLegPlaced ==
    cmd = "oco" =>
        \A i \in PlacementIdx :
            /\ calls[i].type = "STOP" => \E j \in 1..(i - 1) : LimitLegOk(j)
            /\ (calls[i].type = "LIMIT" /\ calls[i].res # "ok") =>
                   \A j \in PlacementIdx : calls[j].type # "STOP"

C4_Witness ==
    /\ cmd = "oco"
    /\ \E i \in PlacementIdx : calls[i].type = "STOP"
    /\ Finished

\* C5: once both OCO legs are placed, the list of placed orders is the limit
\* leg's record followed by the stop-limit leg's record (two distinct
\* identifiers), no cancellation call is issued, and the manual-cancellation
\* reminder has been surfaced.
C5_BothLegsPlacedTwoOrdersNoCancelWarned ==
    BothLegsPlaced =>
        /\ Len(orders) = 2
        /\ orders[1].type = "LIMIT"
        /\ orders[2].type = "STOP"
        /\ orders[1].orderId # orders[2].orderId
        /\ \E i \in Indices(calls) : LimitLegOk(i) /\ calls[i].orderId = orders[1].orderId
        /\ \E j \in Indices(calls) : StopLegOk(j) /\ calls[j].orderId = orders[2].orderId
        /\ CancelIdx = { }
        /\ "Remember to manually cancel the other order when one fills!" \in log

C5_Witness ==
    /\ BothLegsPlaced
    /\ Finished
    /\ exitCode = 0

\* C6: after an OCO run that placed both orders, when one of the two orders is
\* filled the other one is cancelled.
C6_FillCancelsSibling ==
    (BothLegsPlaced /\ Finished) =>
        \A a \in 1..2, b \in 1..2 :
            (a # b /\ book[orders[a].orderId] = "FILLED") =>
                book[orders[b].orderId] = "CANCELED"

\* C7: in the OCO command, an answer to the confirmation prompt that is not y
\* once trimmed and lower-cased ends the run with exit code 0, with no
\* placement call and no cancellation call issued.
C7_DeclinedConfirmationPlacesNothing ==
    (cmd = "oco" /\ confirm # Absent /\ Lower(Strip(confirm)) # << "y" >>) =>
        /\ Finished
        /\ exitCode = 0
        /\ PlacementIdx = { }
        /\ CancelIdx = { }

C7_Witness ==
    /\ cmd = "oco"
    /\ confirm = << "y","e","s" >>
    /\ Finished

\* C8: a finished run exits with code 0 when it issued placement calls and all
\* of them succeeded, and with code 1 when a placement call raised an error
\* (exchange rejection, order error, transport or other failure) or the number
\* of command-line arguments is wrong.
C8_ExitCodes ==
    Finished =>
        /\ (PlacementIdx # { } /\ \A i \in PlacementIdx : calls[i].res = "ok")
               => exitCode = 0
        /\ (\E i \in PlacementIdx : calls[i].res \in ErrorKinds) => exitCode = 1
        /\ Len(argv) # Argc(cmd) => exitCode = 1

C8_Witness ==
    /\ Finished
    /\ cmd = "stop_limit"
    /\ \E i \in PlacementIdx : calls[i].res = "other"
    /\ exitCode = 1

StrictlyPositive(raw) == FGt(ParseFloat(raw), FZero)

\* C9: for the OCO validator with a symbol of at least 6 characters, a side that
\* is BUY or SELL in any case and four numeric, strictly positive amounts, the
\* error list is empty exactly when (SELL, limit > stop, stopLimit <= stop) or
\* (BUY, limit < stop, stopLimit >= stop); SELL 30000/28500/28000 and BUY
\* 28000/28500/29000 pass, SELL with limit 28000 and stop 28500 fails.
C9_OcoPriceRelationship ==
    (pc = "returned" /\ cmd = "oco") =>
        LET side      == Upper(argv[2])
            limit     == ParseFloat(argv[4])
            stop      == ParseFloat(argv[5])
            stopLimit == ParseFloat(argv[6])
        IN  /\ ( /\ Len(argv[1]) >= 6
                 /\ side \in { BUY, SELL }
                 /\ \A k \in 3..6 : StrictlyPositive(argv[k]) )
               => ( validation_errors = << >>
                    <=> \/ side = SELL /\ FGt(limit, stop) /\ FLe(stopLimit, stop)
                        \/ side = BUY /\ FLt(limit, stop) /\ FGe(stopLimit, stop) )
            /\ argv = << BTCUSDT, SELL, Str(1), Str(30000), Str(28500), Str(28000) >>
                   => validation_errors = << >>
            /\ argv = << BTCUSDT, BUY, Str(1), Str(28000), Str(28500), Str(29000) >>
                   => validation_errors = << >>
            /\ (side = SELL /\ argv[4] = Str(28000) /\ argv[5] = Str(28500))
                   => validation_errors # << >>

C9_Witness ==
    /\ pc = "returned"
    /\ cmd = "oco"
    /\ argv = << BTCUSDT, SELL, Str(1), Str(30000), Str(28500), Str(28000) >>
    /\ validation_errors = << >>

\* the field (1 symbol, 2 side, 3 quantity, 4 price) an error message is about
FieldOf(msg) ==
    CASE msg = "Symbol must be at least 6 characters (e.g., BTCUSDT)" -> 1
      [] msg = "Side must be either BUY or SELL" -> 2
      [] msg \in { "Quantity must be greater than 0", "Quantity must be a valid number" } -> 3
      [] msg \in { "Price must be greater than 0", "Price must be a valid number" } -> 4
      [] OTHER -> 0

InvalidNumber(raw) == ParseFloat(raw).k = "err" \/ FLe(ParseFloat(raw), FZero)

InvalidLimitFields(a) ==
    { f \in 1..4 :
        \/ f = 1 /\ Len(a[1]) < 6
        \/ f = 2 /\ Upper(a[2]) \notin { BUY, SELL }
        \/ f = 3 /\ InvalidNumber(a[3])
        \/ f = 4 /\ InvalidNumber(a[4]) }

\* C10: the limit validator returns exactly one error for each invalid field
\* among symbol, side, quantity, price, none for a valid field, in that order:
\* as many errors as invalid fields; quantity "-1" with price "abc" and a valid
\* symbol and side gives exactly two.
C10_LimitValidatorCollectsAllErrors ==
    (pc = "returned" /\ cmd = "limit") =>
        /\ Len(validation_errors) = Cardinality(InvalidLimitFields(argv))
        /\ \A i \in Indices(validation_errors) :
               FieldOf(validation_errors[i]) \in InvalidLimitFields(argv)
        /\ \A i \in Indices(validation_errors), j \in Indices(validation_errors) :
               i < j => FieldOf(validation_errors[i]) < FieldOf(validation_errors[j])
        /\ (argv[1] = BTCUSDT /\ argv[2] = SELL /\ argv[3] = << "-","1" >>
                /\ argv[4] = NotANumber)
               => validation_errors = << "Quantity must be greater than 0",
                                         "Price must be a valid number" >>

C10_Witness ==
    /\ pc = "returned"
    /\ cmd = "limit"
    /\ argv = << BTCUSDT, SELL, << "-","1" >>, NotANumber >>
    /\ Len(validation_errors) = 2

SymbolMessage == "Symbol must be at least 6 characters (e.g., BTCUSDT)"

Occurrences(seq, x) == Cardinality({ i \in Indices(seq) : seq[i] = x })

\* C11: each of the four validators returns the symbol-length error (once) for
\* an empty symbol or one shorter than 6 characters, whatever the other
\* arguments are, and no symbol error for a symbol of 6 or more characters.
C11_SymbolLengthError ==
    pc = "returned" =>
        /\ Len(argv[1]) < 6 => Occurrences(validation_errors, SymbolMessage) = 1
        /\ Len(argv[1]) >= 6 => Occurrences(validation_errors, SymbolMessage) = 0

C11_Witness ==
    /\ pc = "returned"
    /\ cmd = "stop_limit"
    /\ Len(argv[1]) = 5
    /\ argv[2] = << "H","O","L","D" >>
    /\ Head(validation_errors) = SymbolMessage

(* --------------- runs with unusual but accepted arguments -------------- *)

SpSides == { << "S","e","l","l" >>, << "b","U","y" >>, << "h","o","l","d" >> }

SpQuantities == { Str(1), NaN, Inf }

SpPrices == { Str(1), NaN }

SpArgv(c) ==
    CASE c = "market" ->
           { << BTCUSDT, s, q >> : s \in SpSides, q \in SpQuantities }
      [] c = "limit" ->
           { << BTCUSDT, s, q, p >> : s \in SpSides, q \in SpQuantities, p \in SpPrices }
      [] c = "stop_limit" ->
           { << BTCUSDT, s, q, p1, p2 >> : s \in SpSides, q \in SpQuantities,
                                           p1 \in SpPrices, p2 \in SpPrices }
      [] OTHER ->
           { << BTCUSDT, s, q, p, p, p >> : s \in SpSides, q \in SpQuantities,
                                            p \in SpPrices }

InitSpellings ==
    /\ cmd \in Commands
    /\ argv \in SpArgv(cmd)
    /\ pc = "args"
    /\ exitCode = -1
    /\ validation_errors = << >>
    /\ env = [ key |-> << "K" >>, secret |-> << "S" >> ]
    /\ env0 = env
    /\ api_key = Absent
    /\ api_secret = Absent
    /\ calls = << >>
    /\ orders = << >>
    /\ ci = 1
    /\ exc = NoExc
    /\ confirm = Absent
    /\ log = { }
    /\ book = NoBook

SpecSpellings == InitSpellings /\ [][Next]_vars

SideMessage == "Side must be either BUY or SELL"

Validated == pc \notin { "args", "validate" } /\ Len(argv) = Argc(cmd)

\* C12: in each command the validator reports the side error exactly when the
\* upper-cased side is neither BUY nor SELL; the mixed-case spellings Sell and
\* bUy are accepted, and every placement call carries the side upper-cased.
C12_SideCaseInsensitiveSentUpper ==
    /\ Validated =>
          /\ Occurrences(validation_errors, SideMessage) =
                 (IF Upper(argv[2]) \in { BUY, SELL } THEN 0 ELSE 1)
          /\ argv[2] \in { << "S","e","l","l" >>, << "b","U","y" >> }
                 => Occurrences(validation_errors, SideMessage) = 0
    /\ \A i \in PlacementIdx :
          /\ calls[i].side \in { BUY, SELL }
          /\ argv[2] = << "S","e","l","l" >> => calls[i].side = SELL
          /\ argv[2] = << "b","U","y" >> => calls[i].side = BUY

C12_Witness ==
    /\ argv[2] = << "b","U","y" >>
    /\ validation_errors = << >>
    /\ \E i \in PlacementIdx : calls[i].side = BUY /\ calls[i].res = "ok"

\* C18: every placement call carries a strictly positive quantity and, when
\* present, a strictly positive price and stopPrice, whatever raw argument the
\* validator's float() accepted.
C18_PlacedAmountsStrictlyPositive ==
    \A i \in PlacementIdx :
        /\ StrictlyPositive(calls[i].quantity)
        /\ calls[i].price # Absent => StrictlyPositive(calls[i].price)
        /\ calls[i].stopPrice # Absent => StrictlyPositive(calls[i].stopPrice)

ClientOrExchangeIdx ==
    { i \in Indices(calls) : calls[i].op \in ExchangeOps \cup { "Client" } }

\* C13: in each command, when the resolved API key or API secret is empty
\* (missing from the file and typed empty or as whitespace only), the run ends
\* with exit code 1 and has created no client and issued no exchange call.
C13_EmptyCredentialsAreFatal ==
    (api_key # Absent /\ (api_key = << >> \/ api_secret = << >>)) =>
        /\ Finished
        /\ exitCode = 1
        /\ ClientOrExchangeIdx = { }

C13_Witness ==
    /\ Finished
    /\ api_key = << "k" >>
    /\ api_secret = << >>
    /\ env0.key = << "K" >>

CredentialsRead == \E i \in Indices(calls) : calls[i].op = "load_dotenv"

WriteIdx == { i \in Indices(calls) : calls[i].op = "write_env" }

WrittenOk == \E i \in WriteIdx : calls[i].res = "ok"

AbsentAtStart == env0.key = << >> \/ env0.secret = << >>

\* C14 as stated: in a finished run that read the configuration, the credential
\* file was written exactly when the API key or the API secret was absent at
\* that time; with both present it is unchanged; it is written at most once.
C14_WrittenIffAbsent ==
    (Finished /\ CredentialsRead) =>
        /\ WrittenOk <=> AbsentAtStart
        /\ ~AbsentAtStart => env = env0
        /\ Cardinality(WriteIdx) <= 1

\* C14 as amended: the credential file is written only if the API key or the
\* API secret was absent when the configuration was read, and at most once per
\* run; with both present it is left unchanged; with one absent it is written
\* unless a credential prompt is aborted (EOF or interrupt) or the write fails.
C14_WrittenOnlyIfAbsent ==
    /\ WriteIdx # { } => AbsentAtStart
    /\ ~AbsentAtStart => (env = env0 /\ WriteIdx = { })
    /\ env # env0 => WrittenOk
    /\ Cardinality(WriteIdx) <= 1
    /\ (Finished /\ CredentialsRead /\ AbsentAtStart /\ ~WrittenOk) =>
           \/ exc.op = "input"
           \/ \E i \in WriteIdx : calls[i].res = "error"

C14_Witness ==
    /\ Finished
    /\ AbsentAtStart
    /\ WrittenOk
    /\ env # env0
    /\ exitCode = 0

TickerIdx == { i \in Indices(calls) : calls[i].op = "futures_symbol_ticker" }

OpenOrdersIdx == { i \in Indices(calls) : calls[i].op = "futures_get_open_orders" }

\* the parameters main() was given, as the placement call of that type sends them
SentAsGiven(c) ==
    /\ c.symbol = Upper(argv[1])
    /\ c.side = Upper(argv[2])
    /\ c.quantity = argv[3]
    /\ c.price = (CASE cmd = "oco" /\ c.type = "STOP" -> argv[6]
                    [] cmd = "oco" /\ c.type = "LIMIT" -> argv[4]
                    [] cmd = "stop_limit" -> argv[5]
                    [] cmd = "limit" -> argv[4]
                    [] OTHER -> Absent)
    /\ c.stopPrice = (CASE cmd = "oco" /\ c.type = "STOP" -> argv[5]
                        [] cmd = "stop_limit" -> argv[4]
                        [] OTHER -> Absent)

\* C15: a failed ticker call never raises out of get_current_price (only the
\* operator's interrupt passes), the run goes on from the same place as after a
\* successful one, and each placement call carries the parameters of the
\* command line whatever the ticker calls returned.
C15_PriceLookupIsOptional ==
    /\ exc.op = "futures_symbol_ticker" => exc.kind = "interrupt"
    /\ (calls # << >> /\ calls[Len(calls)].op = "futures_symbol_ticker"
        /\ calls[Len(calls)].res = "error") =>
           /\ pc \in { "open_before", "place", "leg1" }
           /\ exitCode = -1
           /\ exc = NoExc
    /\ \A i \in PlacementIdx : SentAsGiven(calls[i])

C15_Witness ==
    /\ Finished
    /\ exitCode = 0
    /\ cmd = "stop_limit"
    /\ Cardinality(TickerIdx) = 2
    /\ \A i \in TickerIdx : calls[i].res = "error"
    /\ \E i \in PlacementIdx : calls[i].res = "ok" /\ SentAsGiven(calls[i])

PlacedBefore(i) == \E j \in PlacementIdx : j < i

\* C16: a failed open-orders query never raises out of get_open_orders (only
\* the operator's interrupt passes); failed before the placement, the run goes
\* on towards the placement, which in OCO only the operator's answer at the
\* confirmation prompt can still stop; failed after a successful placement, the
\* run ends with exit code 0.
C16_OpenOrdersQueryIsOptional ==
    /\ exc.op = "futures_get_open_orders" => exc.kind = "interrupt"
    /\ (calls # << >> /\ calls[Len(calls)].op = "futures_get_open_orders"
        /\ calls[Len(calls)].res = "error" /\ ~PlacedBefore(Len(calls))) =>
           \/ /\ pc \in { "confirm", "place_price" }
              /\ exitCode = -1
              /\ exc = NoExc
           \/ /\ cmd = "oco"
              /\ Finished
              /\ \/ confirm # Absent /\ ~Proceeds(confirm) /\ exitCode = 0
                 \/ confirm = Absent /\ exc.op = "input"
    /\ \A i \in OpenOrdersIdx :
           (calls[i].res = "error" /\ PlacedBefore(i)) => (Finished /\ exitCode = 0)

C16_Witness ==
    /\ Finished
    /\ exitCode = 0
    /\ cmd = "limit"
    /\ Cardinality(OpenOrdersIdx) = 2
    /\ \A i \in OpenOrdersIdx : calls[i].res = "error"
    /\ \E i \in OpenOrdersIdx, j \in OpenOrdersIdx, k \in PlacementIdx :
           i < k /\ k < j /\ calls[k].res = "ok"

PlacementsOfType(t) == { i \in PlacementIdx : calls[i].type = t }

\* C17: nothing is retried: market, limit and stop-limit issue at most one
\* placement call, OCO at most one per leg and at most one cancellation call,
\* and no placement call follows a failed placement call.
C17_NothingIsRetried ==
    /\ cmd # "oco" => Cardinality(PlacementIdx) <= 1
    /\ cmd = "oco" =>
           /\ Cardinality(PlacementsOfType("LIMIT")) <= 1
           /\ Cardinality(PlacementsOfType("STOP")) <= 1
           /\ Cardinality(PlacementIdx) <= 2
           /\ Cardinality(CancelIdx) <= 1
    /\ \A i \in PlacementIdx :
           calls[i].res # "ok" => \A j \in PlacementIdx : j <= i

C17_Witness ==
    /\ Finished
    /\ cmd = "oco"
    /\ Cardinality(PlacementsOfType("LIMIT")) = 1
    /\ Cardinality(PlacementsOfType("STOP")) = 1
    /\ \E i \in PlacementsOfType("STOP") : calls[i].res = "api"
    /\ Cardinality(CancelIdx) = 1

(* ------------- the standalone scripts src/src/*_orders.py ------------- *)

\* src/src/market_orders.py and src/src/limit_orders.py
LegacyCommands == { "market", "limit" }

\* the process state when the interpreter starts importing the script
InitLegacy ==
    /\ cmd \in LegacyCommands
    /\ argv \in GoodArgv(cmd) \cup BadArgv(cmd)
    /\ pc = "legacy_import"
    /\ exitCode = -1
    /\ validation_errors = << >>
    /\ env \in EnvFiles
    /\ env0 = env
    /\ api_key = Absent
    /\ api_secret = Absent
    /\ calls = << >>
    /\ orders = << >>
    /\ ci = 1
    /\ exc = NoExc
    /\ confirm = Absent
    /\ log = { }
    /\ book = NoBook

\* the interpreter's exit status for an exception nothing catches: 1 after the
\* traceback, 130 for KeyboardInterrupt
UncaughtExitCode(kind) == IF kind = "interrupt" THEN 130 ELSE 1

\* the scripts have no handler around their top-level code
LegacyUncaught(e) ==
    /\ exc' = e
    /\ pc' = "done"
    /\ exitCode' = UncaughtExitCode(e.kind)

\* module level: load_dotenv(), os.getenv; market_orders.py prompts for both
\* values when one is missing and writes .env with no try around it;
\* limit_orders.py goes on with whatever it found
LegacyLoadCredentials ==
    /\ pc = "legacy_import"
    /\ LET loaded == Append(calls, Plain("load_dotenv", Absent, "ok"))
       IN  IF cmd = "limit" \/ EnvComplete(env)
           THEN /\ api_key' = env.key
                /\ api_secret' = env.secret
                /\ calls' = loaded
                /\ pc' = "legacy_client"
                /\ UNCHANGED << env, exitCode, exc >>
           ELSE \/ \E tk \in Typed, ts \in Typed :
                     /\ api_key' = tk
                     /\ api_secret' = ts
                     /\ \/ /\ calls' = Append(loaded, Plain("write_env", Absent, "ok"))
                           /\ env' = [ key |-> tk, secret |-> ts ]
                           /\ pc' = "legacy_client"
                           /\ UNCHANGED << exitCode, exc >>
                        \/ /\ calls' = Append(loaded, Plain("write_env", Absent, "error"))
                           /\ LegacyUncaught(Exception("error", "write_env", 0))
                           /\ UNCHANGED env
                \/ \E kind \in { "error", "interrupt" } :
                     /\ calls' = loaded
                     /\ LegacyUncaught(Exception(kind, "input", 0))
                     /\ UNCHANGED << env, api_key, api_secret >>
    /\ UNCHANGED << cmd, argv, env0, validation_errors, orders, ci, confirm, log, book >>

\* module level: client = Client(API_KEY, API_SECRET, testnet=True), before the
\* command line is looked at
LegacyCreateClient ==
    /\ pc = "legacy_client"
    /\ \E res \in HelperOutcomes :
         /\ calls' = Append(calls, Plain("Client", Absent, res))
         /\ IF res = "ok"
            THEN pc' = "legacy_args" /\ UNCHANGED << exitCode, exc >>
            ELSE LegacyUncaught(Exception(res, "Client", 0))
    /\ UNCHANGED << cmd, argv, env0, validation_errors, env, api_key, api_secret, orders,
                    ci, confirm, log, book >>

\* "if len(sys.argv) != n: print(usage); exit(1)"
LegacyCheckArgs ==
    /\ pc = "legacy_args"
    /\ IF Len(argv) # Argc(cmd)
       THEN Exit(1) /\ log' = log \cup { "Usage" }
       ELSE pc' = "legacy_parse" /\ UNCHANGED << exitCode, log >>
    /\ UNCHANGED << cmd, argv, env0, validation_errors, env, api_key, api_secret, calls,
                    orders, ci, exc, confirm, book >>

\* the command-line fields the script passes through float()
LegacyNumbers(c) == IF c = "limit" THEN { 3, 4 } ELSE { 3 }

\* "quantity = float(sys.argv[3])" and "price = float(sys.argv[4])": the only
\* test of the amounts is that float() accepts them
LegacyParse ==
    /\ pc = "legacy_parse"
    /\ IF \E n \in LegacyNumbers(cmd) : ParseFloat(argv[n]) = FErr
       THEN LegacyUncaught(Exception("error", "float", 0))
       ELSE pc' = "legacy_place" /\ UNCHANGED << exitCode, exc >>
    /\ UNCHANGED << cmd, argv, env0, validation_errors, env, api_key, api_secret, calls,
                    orders, ci, confirm, log, book >>

\* client.futures_create_order(symbol=symbol, side=side, type=..., quantity=
\* quantity[, price=price]) with symbol as typed, side upper-cased and the
\* amounts as floats
LegacyOrderCall(c, id, res) ==
    Call("futures_create_order", IF c = "limit" THEN "LIMIT" ELSE "MARKET",
         argv[1], Upper(argv[2]), ParseFloat(argv[3]),
         IF c = "limit" THEN ParseFloat(argv[4]) ELSE Absent, Absent, id, res)

\* place_market_order / place_limit_order: "except Exception as e: print(...)",
\* then the script ends
LegacyPlace ==
    /\ pc = "legacy_place"
    /\ \E res \in PlaceOutcomes, id \in 0..MaxOrderId :
         /\ Answer(res, id)
         /\ calls' = Append(calls, LegacyOrderCall(cmd, id, res))
         /\ IF res = "ok"
            THEN /\ book' = [ book EXCEPT ![id] = "NEW" ]
                 /\ orders' = << [ orderId |-> id, type |-> calls'[Len(calls')].type ] >>
                 /\ log' = log \cup { "Order placed successfully" }
                 /\ Exit(0)
                 /\ UNCHANGED exc
            ELSE IF res = "interrupt"
            THEN /\ LegacyUncaught(Exception(res, "futures_create_order", 1))
                 /\ UNCHANGED << book, orders, log >>
            ELSE /\ log' = log \cup { "Error placing order" }
                 /\ Exit(0)
                 /\ UNCHANGED << book, orders, exc >>
    /\ UNCHANGED << cmd, argv, env0, validation_errors, env, api_key, api_secret, ci, confirm >>

NextLegacy ==
    \/ LegacyLoadCredentials
    \/ LegacyCreateClient
    \/ LegacyCheckArgs
    \/ LegacyParse
    \/ LegacyPlace
    \/ Fill

SpecLegacy == InitLegacy /\ [][NextLegacy]_vars

\* C19: in the standalone scripts a command whose quantity is 0 or otherwise not
\* strictly positive ends with a non-zero exit code, and neither a client
\* construction nor a placement call has happened.
C19_LegacyRejectsNonPositiveQuantity ==
    (Finished /\ Len(argv) = Argc(cmd) /\ ~StrictlyPositive(argv[3])) =>
        /\ exitCode # 0
        /\ ClientOrExchangeIdx = { }

\* C20: in the standalone scripts every failed placement call is surfaced as
\* the run's exception and the process exits with code 1, never 0.
C20_LegacyPlacementFailureExitsOne ==
    \A i \in PlacementIdx :
        calls[i].res \in ErrorKinds =>
            /\ exc.op = "futures_create_order"
            /\ exitCode = 1

PlacedOk == { i \in PlacementIdx : calls[i].res = "ok" }

CancelledOk(id) == \E j \in CancelIdx : calls[j].orderId = id /\ calls[j].res = "ok"

\* exactly one leg was placed and no cancellation of it succeeded
OneLegLeft ==
    /\ Cardinality(PlacedOk) = 1
    /\ \A i \in PlacedOk : ~CancelledOk(calls[i].orderId)

\* C21: a run of the OCO command that ends with exit code 0 has placed no order
\* or both legs; it never leaves exactly one leg placed and not cancelled, an
\* operator's interrupt between or during the placement calls included.
C21_ExitZeroNeverLeavesOneLeg ==
    (cmd = "oco" /\ Finished /\ exitCode = 0) =>
        /\ PlacedOk = { } \/ BothLegsPlaced
        /\ ~OneLegLeft

\* the two messages of the SELL branch of the "Validate OCO logic" block
OcoSellMessages ==
    { "For SELL OCO: limit price should be > stop price (profit taking above current, stop loss below)",
      "For SELL OCO: stop limit price should be <= stop price" }

\* the two messages of the BUY branch of the "Validate OCO logic" block
OcoBuyMessages ==
    { "For BUY OCO: limit price should be < stop price (buy below current, stop loss above)",
      "For BUY OCO: stop limit price should be >= stop price" }

Reported(msgs) == \E i \in Indices(validation_errors) : validation_errors[i] \in msgs

\* C22: the OCO validator reports a BUY price-relationship error only for side
\* BUY and a SELL one only for side SELL, in any case; for any other side the
\* list holds the side error and no price-relationship error.
C22_RelationshipErrorsMatchSide ==
    (pc = "returned" /\ cmd = "oco") =>
        /\ Reported(OcoBuyMessages) => Upper(argv[2]) = BUY
        /\ Reported(OcoSellMessages) => Upper(argv[2]) = SELL
        /\ Upper(argv[2]) \notin { BUY, SELL } =>
               /\ Reported({ SideMessage })
               /\ ~Reported(OcoBuyMessages \cup OcoSellMessages)

\* C23: whatever the OCO validator accepts with no errors, the stop-limit
\* validator accepts too when given the same symbol, side and quantity with
\* stop_price = stopPrice and limit_price = stopLimitPrice.
C23_ValidatorsAgreeOnStopLeg ==
    (pc = "returned" /\ cmd = "oco" /\ validation_errors = << >>) =>
        validate_inputs_stop_limit(argv[1], argv[2], argv[3], argv[5], argv[6]) = << >>

\* the run went through the credential prompts and they returned
Prompted == api_key # Absent /\ ~EnvComplete(env0)

\* C24: a run never leaves an empty API key or API secret in the credential
\* file: the file as the run changed it has both values, and when either value
\* was typed empty the file is not written.
C24_NoEmptyCredentialWritten ==
    /\ env # env0 => EnvComplete(env)
    /\ (Prompted /\ (api_key = << >> \/ api_secret = << >>)) => ~WrittenOk

====
